---- MODULE Spec2Model ----
(***************************************************************************)
(* Model of core/roscpp/scripts/genmsg_cpp.py: the generator that turns a  *)
(* parsed .msg schema into a C++ header.  Text is modelled as TLA+ strings *)
(* (one string per s.write call), field types as sequences of tokens       *)
(* ("p", "/", "B", "[", "]"), and the definition text handed to            *)
(* compute_full_text_escaped as a sequence of characters.                  *)
(***************************************************************************)
EXTENDS Integers, Sequences, FiniteSets, TLC

VARIABLES
    registry,    \* roslib.msgs schema lookup: <<pkg, name>> -> field list
    stack,       \* call stack of is_fixed_length, innermost frame last
    ret,         \* value handed back by the last is_fixed_length return
    argv,        \* sys.argv[1:] of generate_messages
    argi,        \* index into argv of the schema being generated
    msgfiles,    \* the .msg files on disk: file -> [spec, digest]
    pc,          \* position inside generate / generate_messages
    s,           \* the StringIO of the run: the chunks written so far
    exc,         \* the exception that ended the process, or None
    files,       \* output files on disk: path -> content
    dirs,        \* output directories that exist
    runs,        \* completed runs of generate, in order
    definition,  \* text given to compute_full_text_escaped
    escaped      \* its result (empty until it is called)

vars == <<registry, stack, ret, argv, argi, msgfiles, pc, s, exc, files,
          dirs, runs, definition, escaped>>

None == "None"

(***************************************************************************)
(* Bounds of the model.                                                    *)
(***************************************************************************)
MaxTotalFields == 3   \* fields in the whole schema graph (fixed-length analysis)
MaxDepth == 3         \* cap on the is_fixed_length call stack
MaxFields == 2        \* fields of the generated schema
MaxLen == 4           \* characters of a definition text

(***************************************************************************)
(* Generic helpers.                                                        *)
(***************************************************************************)
RECURSIVE Str(_)
\* ''.join(chunks): the text of a sequence of strings
Str(q) ==
    IF q = << >> THEN ""
    ELSE IF Len(q) = 1 THEN q[1]
    ELSE LET h == Len(q) \div 2
         IN Str(SubSeq(q, 1, h)) \o Str(SubSeq(q, h + 1, Len(q)))

RECURSIVE Flatten(_)
\* concatenation of a sequence of sequences
Flatten(q) ==
    IF q = << >> THEN << >>
    ELSE IF Len(q) = 1 THEN q[1]
    ELSE LET h == Len(q) \div 2
         IN Flatten(SubSeq(q, 1, h)) \o Flatten(SubSeq(q, h + 1, Len(q)))

Range(q) == {q[i] : i \in DOMAIN q}

SeqsUpTo(S, n) == UNION {[1..k -> S] : k \in 0..n}

Field(t, n) == [type |-> t, name |-> n]

(***************************************************************************)
(* roslib.msgs / roslib.names, at the interface genmsg_cpp.py uses.        *)
(***************************************************************************)
BUILTIN_TYPES ==
    {"byte", "char", "bool", "uint8", "int8", "uint16", "int16", "uint32",
     "int32", "uint64", "int64", "float32", "float64", "string", "time",
     "duration"}

\* roslib.msgs.parse_type: "base", "base[]" or "base[n]"
parse_type(type) ==
    IF type[Len(type)] = "]"
    THEN LET lb == CHOOSE i \in 1..Len(type) : type[i] = "["
         IN [base_type |-> SubSeq(type, 1, lb - 1),
             is_array  |-> TRUE,
             array_len |-> IF lb + 1 = Len(type) THEN None ELSE type[lb + 1]]
    ELSE [base_type |-> type, is_array |-> FALSE, array_len |-> None]

is_builtin(base_type) == Len(base_type) = 1 /\ base_type[1] \in BUILTIN_TYPES

is_header_type(base_type) ==
    base_type \in {<<"Header">>, <<"roslib", "/", "Header">>}

\* roslib.names.package_resource_name: "pkg/name" -> (pkg, name), "name" -> ('', name)
package_resource_name(type) ==
    IF Len(type) = 3 /\ type[2] = "/"
    THEN [pkg |-> type[1], name |-> type[3]]
    ELSE [pkg |-> "", name |-> type[1]]

\* the text of a base type as it stands in the schema
TypeText(base_type) == Str(base_type)

\* roslib.msgs.load_by_type: the schema, or a failure when it cannot be located
CanLoad(reg, type, pkg) == <<pkg, package_resource_name(type).name>> \in DOMAIN reg
load_by_type(reg, type, pkg) == reg[<<pkg, package_resource_name(type).name>>]

(***************************************************************************)
(* TypeMapper (lines 52-85).                                               *)
(***************************************************************************)
MSG_TYPE_TO_CPP ==
    [t \in BUILTIN_TYPES |->
        CASE t = "byte" -> "int8_t"     [] t = "char" -> "uint8_t"
          [] t = "bool" -> "uint8_t"
          [] t = "uint8" -> "uint8_t"   [] t = "int8" -> "int8_t"
          [] t = "uint16" -> "uint16_t" [] t = "int16" -> "int16_t"
          [] t = "uint32" -> "uint32_t" [] t = "int32" -> "int32_t"
          [] t = "uint64" -> "uint64_t" [] t = "int64" -> "int64_t"
          [] t = "float32" -> "float"
          [] t = "float64" -> "double"
          [] t = "string" -> "std::string"
          [] t = "time" -> "ros::Time"
          [] t = "duration" -> "ros::Duration"]

msg_type_to_cpp(type) ==
    LET p == parse_type(type)
        base_type == p.base_type
        cpp_type ==
            IF is_builtin(base_type) THEN MSG_TYPE_TO_CPP[base_type[1]]
            ELSE IF Len(base_type) = 1
            THEN IF is_header_type(base_type) THEN "roslib::Header"
                 ELSE TypeText(base_type)
            ELSE base_type[1] \o "::" \o base_type[3]
    IN IF p.is_array
       THEN IF p.array_len = None
            THEN "std::vector<" \o cpp_type \o ">"
            ELSE "boost::array<" \o cpp_type \o ", " \o p.array_len \o ">"
       ELSE cpp_type

\* str.upper() on the names of the model
Upper(x) ==
    CASE x = "p" -> "P" [] x = "q" -> "Q" [] x = "M" -> "M" [] x = "N" -> "N"

(***************************************************************************)
(* The emitters.  Each yields the chunks it writes to the buffer, one per  *)
(* s.write call.                                                           *)
(***************************************************************************)
write_begin(pkg, msg, file) ==
    << "/* Auto-generated by genmsg_cpp for file " \o file \o " */\n",
       "#ifndef " \o Upper(pkg) \o "_" \o Upper(msg) \o "_H\n",
       "#define " \o Upper(pkg) \o "_" \o Upper(msg) \o "_H\n" >>

FixedIncludes ==
    << "#include <string>\n",
       "#include <vector>\n",
       "#include \"ros/serialization.h\"\n",
       "#include \"ros/builtin_message_traits.h\"\n",
       "#include \"ros/message.h\"\n",
       "#include \"ros/time.h\"\n\n" >>

\* lines 102-107: the include a field contributes, if any
write_includes_field_noarrays(f) ==
    LET p == parse_type(f.type)
    IN IF ~is_builtin(p.base_type) /\ ~p.is_array
       THEN IF is_header_type(p.base_type)
            THEN << "#include \"roslib/Header.h\"\n" >>
            ELSE << "#include \"" \o TypeText(p.base_type) \o ".h\"\n" >>
       ELSE << >>

write_includes_field(f) ==
    LET p == parse_type(f.type)
    IN IF ~is_builtin(p.base_type)
       THEN IF is_header_type(p.base_type)
            THEN << "#include \"roslib/Header.h\"\n" >>
            ELSE << "#include \"" \o TypeText(p.base_type) \o ".h\"\n" >>
       ELSE << >>

write_includes(spec) ==
    FixedIncludes
    \o Flatten([i \in DOMAIN spec.fields |-> write_includes_field(spec.fields[i])])
    \o << "\n" >>

write_end(pkg, msg) ==
    << "#endif // " \o Upper(pkg) \o "_" \o Upper(msg) \o "_H\n" >>

default_value(type) ==
    IF type \in {"byte", "int8", "int16", "int32", "int64",
                 "char", "uint8", "uint16", "uint32", "uint64"}
    THEN "0"
    ELSE IF type \in {"float32", "float64"} THEN "0.0"
    ELSE IF type = "bool" THEN "false"
    ELSE ""

\* default_value on a parsed base type
DefaultOf(base_type) == default_value(TypeText(base_type))

write_constructor(msg, spec) ==
    LET fields == spec.fields
        scalars == SelectSeq(fields, LAMBDA f : ~parse_type(f.type).is_array)
        fixed == SelectSeq(fields, LAMBDA f : parse_type(f.type).is_array
                                              /\ parse_type(f.type).array_len # None
                                              /\ DefaultOf(parse_type(f.type).base_type) # "")
    IN << "  " \o msg \o "()\n" >>
       \o Flatten([i \in DOMAIN scalars |->
             << (IF i = 1 THEN "  : " ELSE "  , "),
                "  " \o scalars[i].name \o "("
                     \o DefaultOf(parse_type(scalars[i].type).base_type) \o ")\n" >>])
       \o << "  {\n" >>
       \o [i \in DOMAIN fixed |->
             "    " \o fixed[i].name \o ".assign("
                    \o DefaultOf(parse_type(fixed[i].type).base_type) \o ");\n"]
       \o << "  }\n\n" >>

write_member(type, name) ==
    LET cpp_type == msg_type_to_cpp(type)
    IN << "  typedef " \o cpp_type \o " _" \o name \o "_type;\n",
          "  " \o cpp_type \o " " \o name \o ";\n\n" >>

write_members(spec) ==
    Flatten([i \in DOMAIN spec.fields |->
                write_member(spec.fields[i].type, spec.fields[i].name)])

\* lines 181-183: the constant types write_constant lets through
ConstantTypes ==
    {<<t>> : t \in {"byte", "int8", "int16", "int32", "int64",
                    "char", "uint8", "uint16", "uint32", "uint64",
                    "float32", "float64"}}

\* lines 180-186: raises ValueError, or writes the binding
write_constant(constant) ==
    IF constant.type \notin ConstantTypes
    THEN [raises |-> TRUE, out |-> << >>]
    ELSE [raises |-> FALSE,
          out |-> << "  static const " \o msg_type_to_cpp(constant.type) \o " "
                     \o constant.name \o " = " \o constant.val \o ";\n" >>]

RECURSIVE write_constants_from(_, _)
write_constants_from(constants, i) ==
    IF i > Len(constants) THEN [raises |-> FALSE, out |-> << "\n" >>]
    ELSE LET c == write_constant(constants[i])
         IN IF c.raises THEN c
            ELSE LET rest == write_constants_from(constants, i + 1)
                 IN [raises |-> rest.raises, out |-> c.out \o rest.out]

\* lines 188-190: the constants in order; the first raise ends the list
write_constants(spec) == write_constants_from(spec.constants, 1)

write_deprecated_member_functions(pkg, msg) ==
    LET cpp_msg == pkg \o "::" \o msg
    IN << "  virtual const std::string __getDataType() const { return ros::message_traits::datatype<" \o cpp_msg \o ">(); }\n",
          "  virtual const std::string __getMD5Sum() const { return ros::message_traits::md5sum<" \o cpp_msg \o ">(); }\n",
          "  virtual const std::string __getMessageDefinition() const { return ros::message_traits::definition<" \o cpp_msg \o ">(); }\n",
          "  virtual uint32_t serializationLength() const { return ros::serialization::Serializer<" \o cpp_msg \o ">::serializedLength(*this); }\n",
          "  virtual uint8_t *serialize(uint8_t *write_ptr, uint32_t seq) const { ros::serialization::Buffer b(write_ptr, 1000000000); b = ros::serialization::Serializer<" \o cpp_msg \o ">::write(b, *this); return b.data; }\n",
          "  virtual uint8_t *deserialize(uint8_t *read_ptr) { ros::serialization::Buffer b(read_ptr, 1000000000); b = ros::serialization::Serializer<" \o cpp_msg \o ">::read(b, *this); return b.data; }\n\n" >>

\* lines 111-124: raises with what was written before the bad constant, or
\* writes the whole struct
write_struct(spec, pkg, msg) ==
    LET cpp_msg == pkg \o "::" \o msg
        head == << "struct " \o msg \o " : public ros::Message\n{\n" >>
                \o write_constructor(msg, spec) \o write_members(spec)
        consts == write_constants(spec)
    IN IF consts.raises
       THEN [raises |-> TRUE, out |-> head \o consts.out]
       ELSE [raises |-> FALSE,
             out |-> head \o consts.out
                     \o write_deprecated_member_functions(pkg, msg)
                     \o << "  typedef boost::shared_ptr<" \o cpp_msg \o "> Ptr;\n",
                           "  typedef boost::shared_ptr<" \o cpp_msg \o " const> ConstPtr;\n",
                           "}; // struct " \o msg \o "\n",
                           "typedef boost::shared_ptr<" \o cpp_msg \o "> " \o msg \o "Ptr;\n",
                           "typedef boost::shared_ptr<" \o cpp_msg \o " const> " \o msg \o "ConstPtr;\n" >>]

write_struct_bodies(spec, pkg, msg) == << >>

write_traits_declarations(pkg, msg) ==
    LET cpp_msg == pkg \o "::" \o msg
    IN << "namespace ros\n{\n",
          "namespace message_traits\n{\n",
          "template<> inline const char* md5sum<" \o cpp_msg \o ">();\n",
          "template<> inline const char* datatype<" \o cpp_msg \o ">();\n",
          "template<> inline const char* definition<" \o cpp_msg \o ">();\n",
          "} // namespace message_traits\n",
          "} // namespace ros\n\n" >>

(***************************************************************************)
(* MetadataEmitter (lines 235-283).  The definition text is a sequence of  *)
(* characters.                                                             *)
(***************************************************************************)
RECURSIVE SplitLines(_)
\* str.split('\n')
SplitLines(text) ==
    IF \A i \in DOMAIN text : text[i] # "\n" THEN << text >>
    ELSE LET k == CHOOSE i \in DOMAIN text :
                      text[i] = "\n" /\ \A j \in 1..(i - 1) : text[j] # "\n"
         IN << SubSeq(text, 1, k - 1) >> \o SplitLines(SubSeq(text, k + 1, Len(text)))

RECURSIVE Replace(_, _, _)
\* str.replace(old, new) for a one-character old: a new string, the receiver
\* is left as it is
Replace(line, old, new) ==
    IF line = << >> THEN << >>
    ELSE (IF line[1] = old THEN new ELSE << line[1] >>) \o Replace(Tail(line), old, new)

\* lines 249-251: both replace calls are made and their results dropped, so
\* the line is written as it came
compute_full_text_escaped_line(line) ==
    LET dropped1 == Replace(line, "\\", << "\\", "\\" >>)
        dropped2 == Replace(line, "\"", << "\\", "\"" >>)
    IN << "\"" >> \o line \o << "\\", "n", "\"", "\n" >>

\* lines 245-255; text is what roslib.gentools.compute_full_text returned
compute_full_text_escaped(text) ==
    LET lines == SplitLines(text)
    IN Flatten([i \in DOMAIN lines |-> compute_full_text_escaped_line(lines[i])])

\* spec.has_header(): the schema has a leading header field
has_header(spec) ==
    /\ spec.fields # << >>
    /\ is_header_type(spec.fields[1].type)
    /\ spec.fields[1].name = "header"

HasHeaderMarker(cpp_msg) == "template<> struct HasHeader<" \o cpp_msg \o "> : public TrueType {};\n"
GetHeaderAccessor(cpp_msg) == "template<> inline roslib::Header* getHeader(" \o cpp_msg \o "& m) { return &m.header; }\n"
IsFixedSizeMarker(cpp_msg) == "template<> struct IsFixedSize<" \o cpp_msg \o "> : public TrueType {};\n"

\* lines 273-275 with the test of the flag inverted
write_traits_header_inverted(spec, cpp_msg) ==
    IF ~has_header(spec)
    THEN << HasHeaderMarker(cpp_msg), GetHeaderAccessor(cpp_msg) >>
    ELSE << >>

\* lines 273-275
write_traits_header(spec, cpp_msg) ==
    IF has_header(spec)
    THEN << HasHeaderMarker(cpp_msg), GetHeaderAccessor(cpp_msg) >>
    ELSE << >>

\* lines 259-275: write_traits_bodies up to its call of is_fixed_length
write_traits_bodies_head(spec, pkg, msg, gendeps_dict) ==
    LET md5sum == gendeps_dict.md5
        full_text == Str(compute_full_text_escaped(gendeps_dict.text))
        cpp_msg == pkg \o "::" \o msg
    IN << "namespace ros\n{\n",
          "namespace message_traits\n{\n",
          "template<> inline const char* md5sum<" \o cpp_msg \o ">() { return \"" \o md5sum \o "\"; }\n",
          "template<> inline const char* datatype<" \o cpp_msg \o ">() { return \"" \o pkg \o "/" \o msg \o "\"; }\n",
          "template<> inline const char* definition<" \o cpp_msg \o ">()\n{\n  return\n",
          full_text,
          ";\n}\n\n" >>
       \o write_traits_header(spec, cpp_msg)

\* lines 277-283: write_traits_bodies once is_fixed_length has returned
write_traits_bodies_tail(fixed_length, pkg, msg) ==
    LET cpp_msg == pkg \o "::" \o msg
    IN (IF fixed_length THEN << IsFixedSizeMarker(cpp_msg) >> ELSE << >>)
       \o << "\n",
             "} // namespace message_traits\n",
             "} // namespace ros\n\n" >>

(***************************************************************************)
(* SerializationEmitter (lines 285-322).                                   *)
(***************************************************************************)
write_serialization_declarations(pkg, msg) ==
    LET cpp_msg == pkg \o "::" \o msg
    IN << "namespace ros\n{\n",
          "namespace serialization\n{\n",
          "template<> struct Serializer<" \o cpp_msg \o ">\n{\n",
          "  inline static Buffer write(Buffer buffer, const " \o cpp_msg \o "& m);\n",
          "  inline static Buffer read(Buffer buffer, " \o cpp_msg \o "& m);\n",
          "  inline static uint32_t serializedLength(const " \o cpp_msg \o "& m);\n",
          "};\n",
          "} // namespace serialization\n",
          "} // namespace ros\n\n" >>

WriteHead(cpp_msg) == "inline Buffer Serializer<" \o cpp_msg \o ">::write(Buffer buffer, const " \o cpp_msg \o "& m)\n{\n"
ReadHead(cpp_msg) == "inline Buffer Serializer<" \o cpp_msg \o ">::read(Buffer buffer, " \o cpp_msg \o "& m)\n{\n"
LengthHead(cpp_msg) == "inline uint32_t Serializer<" \o cpp_msg \o ">::serializedLength(const " \o cpp_msg \o "& m)\n{\n"

WriteStmt(name) == "  buffer = serialize(buffer, m." \o name \o ");\n"
ReadStmt(name) == "  buffer = deserialize(buffer, m." \o name \o ");\n"
LengthStmt(name) == "  size += serializationLength(m." \o name \o ");\n"

\* lines 306, 311, 317 iterating over the scalar fields only
serialized_fields_scalars(spec) ==
    SelectSeq(spec.fields, LAMBDA f : ~parse_type(f.type).is_array)

\* lines 300, 306, 311, 317: the fields the three loops go through
serialized_fields(spec) == spec.fields

write_serialization_bodies(spec, pkg, msg) ==
    LET cpp_msg == pkg \o "::" \o msg
        fields == serialized_fields(spec)
    IN << "namespace ros\n{\n",
          "namespace serialization\n{\n\n",
          WriteHead(cpp_msg) >>
       \o [i \in DOMAIN fields |-> WriteStmt(fields[i].name)]
       \o << "  return buffer;\n}\n\n",
             ReadHead(cpp_msg) >>
       \o [i \in DOMAIN fields |-> ReadStmt(fields[i].name)]
       \o << "  return buffer;\n}\n\n",
             LengthHead(cpp_msg),
             "  uint32_t size = 0;\n" >>
       \o [i \in DOMAIN fields |-> LengthStmt(fields[i].name)]
       \o << "  return size;\n}\n\n",
             "} // namespace serialization\n",
             "} // namespace ros\n\n" >>

(***************************************************************************)
(* is_fixed_length (lines 192-214) as a machine over an explicit call      *)
(* stack.  A frame holds the arguments and locals of one activation.       *)
(***************************************************************************)
Frame(spec, package) ==
    [spec |-> spec, package |-> package, phase |-> "scan", i |-> 1,
     types |-> <<>>, todo |-> {}]

Top == stack[Len(stack)]
Pop == SubSeq(stack, 1, Len(stack) - 1)
SetTop(fr) == [stack EXCEPT ![Len(stack)] = fr]

\* lines 195-204: one iteration of the first loop, on field fr.i
is_fixed_length_scan_nostring(fr) ==
    LET p == parse_type(fr.spec[fr.i].type)
    IN IF p.is_array /\ p.array_len = None
       THEN [returns |-> TRUE, frame |-> fr]
       ELSE [returns |-> FALSE,
             frame |-> [fr EXCEPT !.i = @ + 1,
                                  !.types = IF ~is_builtin(p.base_type)
                                            THEN Append(@, p.base_type)
                                            ELSE @]]

is_fixed_length_scan(fr) ==
    LET p == parse_type(fr.spec[fr.i].type)
    IN IF p.is_array /\ p.array_len = None
       THEN [returns |-> TRUE, frame |-> fr]
       ELSE IF p.base_type = <<"string">>
       THEN [returns |-> TRUE, frame |-> fr]
       ELSE [returns |-> FALSE,
             frame |-> [fr EXCEPT !.i = @ + 1,
                                  !.types = IF ~is_builtin(p.base_type)
                                            THEN Append(@, p.base_type)
                                            ELSE @]]

\* lines 208-209: the package a type of the set is looked up in
is_fixed_length_pkg(type, package) ==
    LET pkg == package_resource_name(type).pkg
    IN IF pkg = "" THEN package ELSE pkg

\* the schemas of the activations on the stack
OnStack == {stack[k].spec : k \in DOMAIN stack}

\* line 207: the types the second loop has still to visit
is_fixed_length_rest_guarded(fr) ==
    {t \in fr.todo :
        LET pkg == is_fixed_length_pkg(t, fr.package)
        IN ~(CanLoad(registry, t, pkg)
             /\ load_by_type(registry, t, pkg) \in OnStack)}

is_fixed_length_rest(fr) == fr.todo

FLOthers == <<registry, argv, argi, msgfiles, pc, s, exc, files, dirs, runs,
              definition, escaped>>

\* lines 195-204: the first loop looks at the next field
FLScan ==
    /\ stack # <<>>
    /\ Top.phase = "scan"
    /\ Top.i <= Len(Top.spec)
    /\ LET r == is_fixed_length_scan(Top)
       IN IF r.returns
          THEN stack' = Pop /\ ret' = "False"
          ELSE stack' = SetTop(r.frame) /\ ret' = ret
    /\ UNCHANGED FLOthers

\* line 206: types = set(types)
FLSet ==
    /\ stack # <<>>
    /\ Top.phase = "scan"
    /\ Top.i > Len(Top.spec)
    /\ stack' = SetTop([Top EXCEPT !.phase = "loop", !.todo = Range(Top.types)])
    /\ UNCHANGED <<ret, FLOthers>>

\* lines 207-211: the second loop takes a type of the set (a Python set has
\* no specified order), loads its schema and calls is_fixed_length on it;
\* a load that fails raises through every activation
FLCall ==
    /\ stack # <<>>
    /\ Top.phase = "loop"
    /\ Len(stack) < MaxDepth
    /\ \E type \in is_fixed_length_rest(Top) :
          LET pkg == is_fixed_length_pkg(type, Top.package)
          IN IF CanLoad(registry, type, pkg)
             THEN /\ stack' = Append(SetTop([Top EXCEPT !.phase = "wait",
                                                        !.todo = @ \ {type}]),
                                     Frame(load_by_type(registry, type, pkg), pkg))
                  /\ ret' = None
             ELSE /\ stack' = <<>>
                  /\ ret' = "raise"
    /\ UNCHANGED FLOthers

\* lines 211-212: the nested call came back
FLAfterCall ==
    /\ stack # <<>>
    /\ Top.phase = "wait"
    /\ ret \in {"True", "False"}
    /\ IF ret = "False"
       THEN stack' = Pop /\ ret' = "False"
       ELSE stack' = SetTop([Top EXCEPT !.phase = "loop"]) /\ ret' = None
    /\ UNCHANGED FLOthers

\* line 214: the set is exhausted
FLReturnTrue ==
    /\ stack # <<>>
    /\ Top.phase = "loop"
    /\ is_fixed_length_rest(Top) = {}
    /\ stack' = Pop
    /\ ret' = "True"
    /\ UNCHANGED FLOthers

NextFixed == FLScan \/ FLSet \/ FLCall \/ FLAfterCall \/ FLReturnTrue

(***************************************************************************)
(* The fixed-length analysis on its own: every schema graph over three     *)
(* schemas p/A, p/B, q/C with at most MaxTotalFields fields in all; the    *)
(* analysed schema is p/A.                                                 *)
(***************************************************************************)
FLKeys == <<(<<"p", "A">>), (<<"p", "B">>), (<<"q", "C">>)>>

FLTypes ==
    {<<"int32">>, <<"string">>, <<"int32", "[", "]">>, <<"int32", "[", "2", "]">>,
     <<"A">>, <<"B">>, <<"q", "/", "C">>}

FieldName(i) == "f" \o ToString(i)

NamedFields(ts) == [i \in DOMAIN ts |-> Field(ts[i], FieldName(i))]

RootKey == FLKeys[1]

IdleGen ==
    /\ argv = <<>>
    /\ argi = 1
    /\ msgfiles = <<>>
    /\ pc = "exit"
    /\ s = <<>>
    /\ exc = None
    /\ files = <<>>
    /\ dirs = {}
    /\ runs = <<>>

IdleText ==
    /\ definition = <<>>
    /\ escaped = <<>>

InitFixed ==
    /\ \E la \in 0..MaxTotalFields :
       \E lb \in 0..(MaxTotalFields - la) :
       \E lc \in 0..(MaxTotalFields - la - lb) :
       \E fa \in [1..la -> FLTypes], fb \in [1..lb -> FLTypes], fc \in [1..lc -> FLTypes] :
          registry = (FLKeys[1] :> NamedFields(fa)) @@ (FLKeys[2] :> NamedFields(fb))
                     @@ (FLKeys[3] :> NamedFields(fc))
    /\ stack = <<Frame(registry[RootKey], RootKey[1])>>
    /\ ret = None
    /\ IdleGen
    /\ IdleText

SpecFixed == InitFixed /\ [][NextFixed]_vars

(***************************************************************************)
(* Orchestrator: generate (lines 324-350) and generate_messages (lines     *)
(* 352-354).  pc names the statement of generate that comes next.          *)
(***************************************************************************)
\* roslib.packages.get_dir_pkg: the package directory and package of a path
get_dir_pkg(msg_path) == [package_dir |-> "/ws/p", package |-> "p"]

\* the .msg file a path names
FileOf(msg_path) ==
    CASE msg_path = "/ws/p/msg/M.msg" -> "M"
      [] msg_path = "msg/M.msg" -> "M"
      [] msg_path = "/ws/p/msg/N.msg" -> "N"

\* roslib.msgs.load_from_file: the name and the schema of the file
load_from_file(msg_path) ==
    [name |-> FileOf(msg_path), spec |-> msgfiles[FileOf(msg_path)].spec]

\* roslib.gentools.get_dependencies: the digest of the schema
get_dependencies(msg_path) == msgfiles[FileOf(msg_path)].gendeps

MsgPath == argv[argi]
Package == get_dir_pkg(MsgPath).package
PackageDir == get_dir_pkg(MsgPath).package_dir
Name == load_from_file(MsgPath).name
Schema == load_from_file(MsgPath).spec

OutputDir == PackageDir \o "/msg/cpp/" \o Package
OutputFile == OutputDir \o "/" \o Name \o ".h"

GenFS == <<files, dirs, runs>>
GenIn == <<registry, argv, msgfiles, definition, escaped>>

\* line 328 with the buffer of the run before kept
generate_begin_stale ==
    /\ pc = "generate"
    /\ s' = s \o write_begin(Package, Name, MsgPath)
    /\ pc' = "includes"
    /\ UNCHANGED <<argi, exc, stack, ret, GenFS, GenIn>>

\* line 333 left out: the forward declaration is followed by line 334
generate_forward_skips ==
    /\ pc = "forward"
    /\ s' = Append(s, "namespace " \o Package \o " { struct " \o Name \o "; }\n\n")
    /\ pc' = "serialization_declarations"
    /\ UNCHANGED <<argi, exc, stack, ret, GenFS, GenIn>>

\* lines 324-350 with the output file opened before the sections are emitted
generate_begin_opens ==
    /\ pc = "generate"
    /\ s' = write_begin(Package, Name, MsgPath)
    /\ pc' = "includes"
    /\ dirs' = dirs \cup {OutputDir}
    /\ files' = (OutputFile :> "") @@ files
    /\ UNCHANGED <<argi, exc, stack, ret, runs, GenIn>>

\* lines 325-329: a fresh buffer, then write_begin
generate_begin ==
    /\ pc = "generate"
    /\ s' = write_begin(Package, Name, MsgPath)
    /\ pc' = "includes"
    /\ UNCHANGED <<argi, exc, stack, ret, GenFS, GenIn>>

\* line 330
generate_includes ==
    /\ pc = "includes"
    /\ s' = s \o write_includes(Schema)
    /\ pc' = "forward"
    /\ UNCHANGED <<argi, exc, stack, ret, GenFS, GenIn>>

\* line 332
generate_forward ==
    /\ pc = "forward"
    /\ s' = Append(s, "namespace " \o Package \o " { struct " \o Name \o "; }\n\n")
    /\ pc' = "traits_declarations"
    /\ UNCHANGED <<argi, exc, stack, ret, GenFS, GenIn>>

\* line 333
generate_traits_declarations ==
    /\ pc = "traits_declarations"
    /\ s' = s \o write_traits_declarations(Package, Name)
    /\ pc' = "serialization_declarations"
    /\ UNCHANGED <<argi, exc, stack, ret, GenFS, GenIn>>

\* line 334
generate_serialization_declarations ==
    /\ pc = "serialization_declarations"
    /\ s' = s \o write_serialization_declarations(Package, Name)
    /\ pc' = "struct"
    /\ UNCHANGED <<argi, exc, stack, ret, GenFS, GenIn>>

\* lines 335-338: a ValueError of write_constant leaves generate
generate_struct ==
    /\ pc = "struct"
    /\ LET w == write_struct(Schema, Package, Name)
       IN IF w.raises
          THEN /\ s' = s \o << "namespace " \o Package \o "\n{\n" >> \o w.out
               /\ pc' = "raised"
               /\ exc' = "ValueError"
          ELSE /\ s' = s \o << "namespace " \o Package \o "\n{\n" >> \o w.out
                         \o write_struct_bodies(Schema, Package, Name)
                         \o << "} // namespace " \o Package \o "\n\n" >>
               /\ pc' = "traits_bodies"
               /\ exc' = exc
    /\ UNCHANGED <<argi, stack, ret, GenFS, GenIn>>

\* line 339, write_traits_bodies lines 259-277: up to the call of is_fixed_length
generate_traits_bodies ==
    /\ pc = "traits_bodies"
    /\ s' = s \o write_traits_bodies_head(Schema, Package, Name, get_dependencies(MsgPath))
    /\ stack' = << Frame(Schema.fields, Package) >>
    /\ ret' = None
    /\ pc' = "is_fixed_length"
    /\ UNCHANGED <<argi, exc, GenFS, GenIn>>

\* lines 277-283: is_fixed_length has returned, or raised through
\* write_traits_bodies and generate
generate_traits_bodies_return ==
    /\ pc = "is_fixed_length"
    /\ stack = << >>
    /\ ret # None
    /\ IF ret = "raise"
       THEN /\ pc' = "raised"
            /\ exc' = "MsgSpecException"
            /\ s' = s
       ELSE /\ s' = s \o write_traits_bodies_tail(ret = "True", Package, Name)
            /\ pc' = "serialization_bodies"
            /\ exc' = exc
    /\ ret' = None
    /\ UNCHANGED <<argi, stack, GenFS, GenIn>>

\* line 340
generate_serialization_bodies ==
    /\ pc = "serialization_bodies"
    /\ s' = s \o write_serialization_bodies(Schema, Package, Name)
    /\ pc' = "end"
    /\ UNCHANGED <<argi, exc, stack, ret, GenFS, GenIn>>

\* line 341
generate_end ==
    /\ pc = "end"
    /\ s' = s \o write_end(Package, Name)
    /\ pc' = "output"
    /\ UNCHANGED <<argi, exc, stack, ret, GenFS, GenIn>>

\* lines 343-350 and the loop of generate_messages: the directory is made,
\* the file opened and the buffer printed to it; print adds a newline
generate_output ==
    /\ pc = "output"
    /\ dirs' = dirs \cup {OutputDir}
    /\ files' = (OutputFile :> (Str(s) \o "\n")) @@ files
    /\ runs' = Append(runs, [msg_path |-> MsgPath,
                             spec |-> Schema,
                             gendeps |-> get_dependencies(MsgPath),
                             file |-> OutputFile,
                             sections |-> s,
                             text |-> Str(s) \o "\n"])
    /\ argi' = argi + 1
    /\ pc' = IF argi + 1 > Len(argv) THEN "exit" ELSE "generate"
    /\ UNCHANGED <<s, exc, stack, ret, GenIn>>

NextGen ==
    \/ generate_begin
    \/ generate_includes
    \/ generate_forward
    \/ generate_traits_declarations
    \/ generate_serialization_declarations
    \/ generate_struct
    \/ generate_traits_bodies
    \/ NextFixed
    \/ generate_traits_bodies_return
    \/ generate_serialization_bodies
    \/ generate_end
    \/ generate_output

(***************************************************************************)
(* The inputs of a run of generate_messages.                               *)
(***************************************************************************)
\* the schemas the generated schema can refer to
RegistryGen ==
    (<<"p", "B">> :> << Field(<<"int32">>, "x") >>)
    @@ (<<"q", "C">> :> << Field(<<"int32", "[", "]">>, "ys") >>)
    @@ (<<"roslib", "Header">> :>
          << Field(<<"uint32">>, "seq"), Field(<<"time">>, "stamp"),
             Field(<<"string">>, "frame_id") >>)

FieldPool ==
    { Field(<<"roslib", "/", "Header">>, "header"),
      Field(<<"Header">>, "header"),
      Field(<<"int32">>, "a"),
      Field(<<"string">>, "b"),
      Field(<<"float64", "[", "2", "]">>, "c"),
      Field(<<"B">>, "d"),
      Field(<<"B", "[", "]">>, "e"),
      Field(<<"q", "/", "C">>, "f") }

\* field lists with distinct field names
FieldLists ==
    {fl \in SeqsUpTo(FieldPool, MaxFields) :
        \A i, j \in DOMAIN fl : fl[i].name = fl[j].name => i = j}

Constant(t, n, v) == [type |-> t, name |-> n, val |-> v]

ConstantLists ==
    { << >>,
      << Constant(<<"int32">>, "K", "1") >>,
      << Constant(<<"bool">>, "F", "1") >>,
      << Constant(<<"float64">>, "G", "2.5"), Constant(<<"string">>, "S", "x") >> }

DefinitionTexts ==
    { << "i", "\n" >>, << "#", "\"", "\\", "\n", "b" >> }

\* the schema of N.msg: a constant of type time
OtherSchema ==
    [fields |-> << Field(<<"int32">>, "a") >>,
     constants |-> << Constant(<<"time">>, "T", "0") >>]

ArgLists ==
    { << "/ws/p/msg/M.msg", "msg/M.msg" >>,
      << "/ws/p/msg/M.msg", "/ws/p/msg/M.msg" >>,
      << "/ws/p/msg/M.msg", "/ws/p/msg/N.msg" >> }

InitGen ==
    /\ registry = RegistryGen
    /\ stack = << >>
    /\ ret = None
    /\ argv \in ArgLists
    /\ argi = 1
    /\ \E fl \in FieldLists, cl \in ConstantLists, tx \in DefinitionTexts :
          msgfiles = ("M" :> [spec |-> [fields |-> fl, constants |-> cl],
                              gendeps |-> [md5 |-> "0f1e", text |-> tx]])
                     @@ ("N" :> [spec |-> OtherSchema,
                                 gendeps |-> [md5 |-> "9a8b", text |-> << "n" >>]])
    /\ pc = "generate"
    /\ s = << >>
    /\ exc = None
    /\ files = << >>
    /\ dirs = {}
    /\ runs = << >>
    /\ IdleText

Spec == InitGen /\ [][NextGen]_vars

(***************************************************************************)
(* compute_full_text_escaped on its own, over every short definition text. *)
(***************************************************************************)
Chars == {"a", "\\", "\"", "\n"}

InitText ==
    /\ definition \in SeqsUpTo(Chars, MaxLen)
    /\ escaped = << >>
    /\ registry = << >>
    /\ stack = << >>
    /\ ret = None
    /\ IdleGen

\* lines 245-255; the result is never empty, so << >> stands for "not yet called"
EscapeText ==
    /\ escaped = << >>
    /\ escaped' = compute_full_text_escaped(definition)
    /\ UNCHANGED <<registry, stack, ret, argv, argi, msgfiles, pc, s, exc,
                   files, dirs, runs, definition>>

SpecText == InitText /\ [][EscapeText]_vars

(***************************************************************************)
(* The schema dependency graph, for stating the claims.                    *)
(***************************************************************************)
IsVariableArray(f) == parse_type(f.type).is_array /\ parse_type(f.type).array_len = None

IsStringField(f) == parse_type(f.type).base_type = <<"string">>

\* the schemas a schema refers to: its non-builtin base types, each looked up
\* in its own package, or in the owning package when it names none
Refs(spec, package) ==
    {<<(IF package_resource_name(b).pkg = "" THEN package
        ELSE package_resource_name(b).pkg), package_resource_name(b).name>> :
        b \in {parse_type(spec[i].type).base_type : i \in DOMAIN spec}
              \ {<<x>> : x \in BUILTIN_TYPES}}

KeyRefs(reg, k) == IF k \in DOMAIN reg THEN Refs(reg[k], k[1]) ELSE {}

RECURSIVE Closure(_, _)
Closure(reg, K) ==
    LET N == K \cup UNION {KeyRefs(reg, k) : k \in K}
    IN IF N = K THEN K ELSE Closure(reg, N)

\* every schema reachable from (spec, package) by one or more references
ReachFrom(reg, spec, package) == Closure(reg, Refs(spec, package))

OnCycle(reg, k) == k \in Closure(reg, KeyRefs(reg, k))

Acyclic(reg, spec, package) == \A k \in ReachFrom(reg, spec, package) : ~OnCycle(reg, k)

Resolves(reg, spec, package) == ReachFrom(reg, spec, package) \subseteq DOMAIN reg

SetMax(S) == CHOOSE m \in S : \A x \in S : x <= m

RECURSIVE LongestChain(_, _, _)
\* number of references on the longest chain of references starting at spec
LongestChain(reg, spec, package) ==
    IF Refs(spec, package) = {} THEN 0
    ELSE 1 + SetMax({LongestChain(reg, reg[k], k[1]) : k \in Refs(spec, package)})

RECURSIVE FixedRule(_, _, _)
\* the rule of the claim: no variable-length array, no string, and every
\* referenced schema fixed-length by the same rule
FixedRule(reg, spec, package) ==
    /\ \A i \in DOMAIN spec : ~IsVariableArray(spec[i])
    /\ \A i \in DOMAIN spec : ~IsStringField(spec[i])
    /\ \A k \in Refs(spec, package) : FixedRule(reg, reg[k], k[1])

PyBool(b) == IF b THEN "True" ELSE "False"

RootSpec == registry[RootKey]
RootPkg == RootKey[1]
RootWellFormed == Acyclic(registry, RootSpec, RootPkg) /\ Resolves(registry, RootSpec, RootPkg)
RootReturned == stack = <<>> /\ ret # None

\* C1: on a finite acyclic schema graph whose references all resolve,
\* is_fixed_length returns True exactly when the schema has no variable-length
\* array field, no string field, and every schema it refers to is fixed-length
\* by the same rule; so a variable-length array anywhere below the analysed
\* schema makes the analysed schema non-fixed-length.
C1_FixedLengthRule ==
    (RootReturned /\ RootWellFormed) =>
        /\ ret = PyBool(FixedRule(registry, RootSpec, RootPkg))
        /\ (\E k \in ReachFrom(registry, RootSpec, RootPkg) :
                \E i \in DOMAIN registry[k] : IsVariableArray(registry[k][i]))
           => ret = "False"

\* a nested schema two references down has a variable-length array, and the
\* analysis of the referring schema came back False
C1_Witness ==
    /\ RootReturned
    /\ RootWellFormed
    /\ ret = "False"
    /\ \A i \in DOMAIN RootSpec : ~IsVariableArray(RootSpec[i]) /\ ~IsStringField(RootSpec[i])
    /\ LongestChain(registry, RootSpec, RootPkg) = 2

\* the analysed schema lies on a cycle of references
RootOnCycle == RootKey \in ReachFrom(registry, RootSpec, RootPkg)

\* the schemas on a cycle through the analysed schema
CycleKeys == {k \in ReachFrom(registry, RootSpec, RootPkg) : RootKey \in Closure(registry, KeyRefs(registry, k))}

ShapeFixed(spec) == \A i \in DOMAIN spec : ~IsVariableArray(spec[i]) /\ ~IsStringField(spec[i])

\* C10 as stated: on an acyclic resolving graph the call stack never holds more
\* activations than the longest chain of references has schemas, and on a
\* cycle whose schemas have no variable-length array and no string field
\* the call never comes back.
C10_AsClaimed ==
    /\ RootWellFormed => Len(stack) <= 1 + LongestChain(registry, RootSpec, RootPkg)
    /\ (RootOnCycle /\ \A k \in CycleKeys : ShapeFixed(registry[k])) => ~RootReturned

\* C10, second half as amended: every schema reachable from the analysed one
\* resolves and has neither a variable-length array nor a string field
CyclicAllFixed ==
    /\ RootOnCycle
    /\ Resolves(registry, RootSpec, RootPkg)
    /\ \A k \in ReachFrom(registry, RootSpec, RootPkg) : ShapeFixed(registry[k])

RECURSIVE Work(_, _), NestedWork(_)
\* steps a fresh activation on (spec, package) takes at most, nested ones included
Work(spec, package) == Len(spec) + 2 + NestedWork(Refs(spec, package))

\* a call, the nested activation and the test of its result, for each schema of K
NestedWork(K) ==
    IF K = {} THEN 0
    ELSE LET k == CHOOSE x \in K : TRUE
         IN 2 + Work(registry[k], k[1]) + NestedWork(K \ {k})

\* steps the activation fr has still to take at most
Remaining(fr) ==
    LET keys(S) == {<<is_fixed_length_pkg(b, fr.package), package_resource_name(b).name>> : b \in S}
    IN CASE fr.phase = "scan" -> (Len(fr.spec) - fr.i + 1) + 2 + NestedWork(Refs(fr.spec, fr.package))
         [] fr.phase = "loop" -> 1 + NestedWork(keys(fr.todo))
         [] fr.phase = "wait" -> 2 + NestedWork(keys(fr.todo))

RECURSIVE SumRemaining(_)
SumRemaining(st) == IF st = <<>> THEN 0 ELSE Remaining(st[1]) + SumRemaining(Tail(st))

\* a variant of the analysis: what the whole call stack has still to do
Rank == SumRemaining(stack)

\* C10 (amended): on an acyclic resolving graph is_fixed_length terminates
\* (every step lowers a natural-number variant and the call is never stuck
\* before it has returned) and its recursion depth never exceeds the longest
\* chain of references from the analysed schema; when the analysed schema lies
\* on a cycle and every schema reachable from it resolves and has no
\* variable-length array and no string field, the call never returns: the
\* recursion always takes another step (up to the cap MaxDepth of the model).
C10_DepthAndCycle ==
    /\ [](RootWellFormed =>
            /\ Len(stack) <= 1 + LongestChain(registry, RootSpec, RootPkg)
            /\ (RootReturned \/ ENABLED NextFixed))
    /\ [][RootWellFormed => Rank' < Rank]_vars
    /\ [](CyclicAllFixed =>
            /\ ~RootReturned
            /\ (ENABLED NextFixed \/ Len(stack) = MaxDepth))

\* on a cycle of two schemas the recursion has grown to the cap of the model
C10_Witness ==
    /\ CyclicAllFixed
    /\ Len(stack) = MaxDepth
    /\ Cardinality(CycleKeys) = 2

(***************************************************************************)
(* Claims about generate.                                                  *)
(***************************************************************************)
CppMsg == Package \o "::" \o Name

\* the places of chunk c in the buffer
Places(c) == {k \in DOMAIN s : s[k] = c}
Place(c) == CHOOSE k \in DOMAIN s : s[k] = c

FieldNames == {f.name : f \in FieldPool} \cup {f.name : f \in Range(OtherSchema.fields)}

\* the chunks of the buffer that are among the statements S, in order
StmtsAmong(S) == SelectSeq(s, LAMBDA c : c \in S)

\* the buffer holds, from the chunk head on, exactly the chunks body
RoutineIs(head, body) ==
    /\ Cardinality(Places(head)) = 1
    /\ Place(head) + Len(body) <= Len(s)
    /\ SubSeq(s, Place(head) + 1, Place(head) + Len(body)) = body

\* one statement per declared field, in declared order
DeclaredWrites == [i \in DOMAIN Schema.fields |-> WriteStmt(Schema.fields[i].name)]
DeclaredReads == [i \in DOMAIN Schema.fields |-> ReadStmt(Schema.fields[i].name)]
DeclaredLengths == [i \in DOMAIN Schema.fields |-> LengthStmt(Schema.fields[i].name)]

\* C2: each of the three emitted routines holds exactly one per-field
\* statement for every field, the i-th naming the i-th declared field,
\* whatever the field's type; write and read end by returning the buffer,
\* serializedLength starts its total at 0 and returns it.
C2_FieldOrder ==
    pc \in {"end", "output"} =>
        /\ RoutineIs(WriteHead(CppMsg),
                     DeclaredWrites \o << "  return buffer;\n}\n\n" >>)
        /\ RoutineIs(ReadHead(CppMsg),
                     DeclaredReads \o << "  return buffer;\n}\n\n" >>)
        /\ RoutineIs(LengthHead(CppMsg),
                     << "  uint32_t size = 0;\n" >> \o DeclaredLengths
                     \o << "  return size;\n}\n\n" >>)
        /\ StmtsAmong({WriteStmt(n) : n \in FieldNames}) = DeclaredWrites
        /\ StmtsAmong({ReadStmt(n) : n \in FieldNames}) = DeclaredReads
        /\ StmtsAmong({LengthStmt(n) : n \in FieldNames}) = DeclaredLengths

\* the routines are emitted for an array field named e declared before a
\* scalar field named a
C2_Witness ==
    /\ pc = "output"
    /\ Len(Schema.fields) = 2
    /\ Schema.fields[1].name = "e"
    /\ Schema.fields[2].name = "a"
    /\ Place(WriteStmt("e")) < Place(WriteStmt("a"))

\* the constant types of the claim: the numeric kinds and bool
NumericOrBool == ConstantTypes \cup {<<"bool">>}

ConstantBinding(c) ==
    "  static const " \o msg_type_to_cpp(c.type) \o " " \o c.name \o " = " \o c.val \o ";\n"

\* C3 as stated: write_constant emits the binding of every constant whose type
\* is a numeric kind or bool without error, and raises, emitting nothing for
\* it, for a constant of any other type.
C3_AsClaimed ==
    LET cs == Schema.constants
        bad == {i \in DOMAIN cs : cs[i].type \notin NumericOrBool}
    IN /\ (pc = "raised" /\ exc = "ValueError") =>
            /\ bad # {}
            /\ \A i \in DOMAIN cs :
                  (\A j \in 1..i : j \notin bad) => Places(ConstantBinding(cs[i])) # {}
       /\ pc = "traits_bodies" =>
            /\ bad = {}
            /\ \A i \in DOMAIN cs : Cardinality(Places(ConstantBinding(cs[i]))) = 1

\* the sections of the output unit, each by a chunk only it holds
SectionMarks ==
    << "#ifndef " \o Upper(Package) \o "_" \o Upper(Name) \o "_H\n",
       "#include <string>\n",
       "namespace " \o Package \o " { struct " \o Name \o "; }\n\n",
       "template<> inline const char* md5sum<" \o CppMsg \o ">();\n",
       "template<> struct Serializer<" \o CppMsg \o ">\n{\n",
       "namespace " \o Package \o "\n{\n",
       "struct " \o Name \o " : public ros::Message\n{\n",
       "} // namespace " \o Package \o "\n\n",
       "template<> inline const char* definition<" \o CppMsg \o ">()\n{\n  return\n",
       WriteHead(CppMsg),
       "#endif // " \o Upper(Package) \o "_" \o Upper(Name) \o "_H\n" >>

\* C5: in a successful run the sections are appended once each and in the
\* order guard open, includes, forward declaration, metadata declarations,
\* serialization declarations, type definition inside the package namespace,
\* metadata definitions, serialization definitions, guard close; nothing
\* follows the guard close.
C5_SectionOrder ==
    pc = "output" =>
        /\ \A k \in DOMAIN SectionMarks : Cardinality(Places(SectionMarks[k])) = 1
        /\ \A k \in 1..(Len(SectionMarks) - 1) :
              Place(SectionMarks[k]) < Place(SectionMarks[k + 1])
        /\ Place(SectionMarks[Len(SectionMarks)]) = Len(s)
        /\ Place(SectionMarks[1]) = 2

\* the second schema of the command line has been emitted in full
C5_Witness ==
    /\ pc = "output"
    /\ argi = 2
    /\ Len(Schema.fields) = 2
    /\ Len(s) > Len(SectionMarks)

\* C6 as stated: two runs of generate on the same (schema, digest) pair write
\* the same bytes, whatever the other inputs of the run are.
C6_AsClaimed ==
    \A i, j \in DOMAIN runs :
        (runs[i].spec = runs[j].spec /\ runs[i].gendeps = runs[j].gendeps)
            => runs[i].text = runs[j].text

\* C6 (amended): two runs of generate on the same schema, the same digest and
\* the same schema file path write the same bytes; the path is part of the
\* output (the leading comment names it).
C6_Deterministic ==
    \A i, j \in DOMAIN runs :
        (/\ runs[i].spec = runs[j].spec
         /\ runs[i].gendeps = runs[j].gendeps
         /\ runs[i].msg_path = runs[j].msg_path)
            => runs[i].text = runs[j].text

\* the same schema file has been generated twice from the same path
C6_Witness ==
    /\ Len(runs) = 2
    /\ runs[1].msg_path = runs[2].msg_path
    /\ runs[1].text = runs[2].text
    /\ runs[1].spec.fields # << >>

\* the non-builtin base types of the fields, in declared order
CompositeBases ==
    LET bases == [i \in DOMAIN Schema.fields |-> parse_type(Schema.fields[i].type).base_type]
    IN SelectSeq(bases, LAMBDA b : ~is_builtin(b))

IncludeOf(base_type) ==
    IF is_header_type(base_type) THEN "#include \"roslib/Header.h\"\n"
    ELSE "#include \"" \o TypeText(base_type) \o ".h\"\n"

\* the include lines written after the fixed ones
FieldIncludes == SubSeq(s, 4 + Len(FixedIncludes), Len(s) - 1)

IncludesWritten ==
    /\ pc = "forward"
    /\ SubSeq(s, 4, 3 + Len(FixedIncludes)) = FixedIncludes
    /\ s[Len(s)] = "\n"

\* C7 as stated: after the fixed includes there is exactly one include line per
\* distinct non-builtin base type of the fields, the header type giving
\* "roslib/Header.h".
C7_AsClaimed ==
    pc = "forward" =>
        /\ IncludesWritten
        /\ Range(FieldIncludes) = {IncludeOf(b) : b \in Range(CompositeBases)}
        /\ Len(FieldIncludes) = Cardinality(Range(CompositeBases))

\* C7 (amended): after the fixed includes there is exactly one include line per
\* field whose base type is not builtin, in declared order: a type that several
\* fields refer to is included once for each of them; builtin-typed fields
\* give none and the header type gives "roslib/Header.h" however it is spelled.
C7_IncludePerField ==
    pc = "forward" =>
        /\ IncludesWritten
        /\ FieldIncludes = [i \in DOMAIN CompositeBases |-> IncludeOf(CompositeBases[i])]

\* two fields of the same non-builtin type, one a scalar and one an array
C7_Witness ==
    /\ pc = "forward"
    /\ Len(CompositeBases) = 2
    /\ CompositeBases[1] = CompositeBases[2]
    /\ Len(FieldIncludes) = 2

OutputDirOf(path) ==
    get_dir_pkg(path).package_dir \o "/msg/cpp/" \o get_dir_pkg(path).package

\* what the completed runs wrote
FilesOfRuns ==
    [f \in {runs[k].file : k \in DOMAIN runs} |->
        LET last == SetMax({k \in DOMAIN runs : runs[k].file = f})
        IN runs[last].text]

\* C8: when an emitter fails during generate the failure leaves generate and
\* the output file of that schema is neither created nor written: the
\* directory and file are touched only once every section has been emitted,
\* so the files on disk are those of the runs that completed.
C8_NoPartialFile ==
    /\ files = FilesOfRuns
    /\ dirs = {OutputDirOf(runs[k].msg_path) : k \in DOMAIN runs}
    /\ \A k \in DOMAIN runs :
          runs[k].sections[Len(runs[k].sections)]
              = write_end(get_dir_pkg(runs[k].msg_path).package, FileOf(runs[k].msg_path))[1]
    /\ pc = "raised" =>
          /\ exc \in {"ValueError", "MsgSpecException"}
          /\ Len(runs) = argi - 1

\* the second schema of the command line failed on its constant after the
\* first one had been written
C8_Witness ==
    /\ pc = "raised"
    /\ exc = "ValueError"
    /\ Len(runs) = 1
    /\ OutputFile \notin DOMAIN files

Count(c) == Cardinality(Places(c))

\* C9: the HasHeader marker and the getHeader accessor are emitted, once each,
\* exactly when the schema has a leading header field, and the IsFixedSize
\* marker exactly when is_fixed_length holds for the schema.
C9_Markers ==
    pc \in {"serialization_bodies", "end", "output"} =>
        /\ Count(HasHeaderMarker(CppMsg)) = IF has_header(Schema) THEN 1 ELSE 0
        /\ Count(GetHeaderAccessor(CppMsg)) = IF has_header(Schema) THEN 1 ELSE 0
        /\ Count(IsFixedSizeMarker(CppMsg)) =
              IF Resolves(registry, Schema.fields, Package)
                 /\ FixedRule(registry, Schema.fields, Package)
              THEN 1 ELSE 0

\* a schema with a leading header field has its metadata emitted
C9_Witness ==
    /\ pc = "output"
    /\ has_header(Schema)
    /\ Count(GetHeaderAccessor(CppMsg)) = 1
    /\ Count(IsFixedSizeMarker(CppMsg)) = 0

(***************************************************************************)
(* Claim about compute_full_text_escaped.                                  *)
(***************************************************************************)
\* a line as a fragment with its backslashes and double quotes escaped
EscapedFragment(line) ==
    << "\"" >>
    \o Replace(Replace(line, "\\", << "\\", "\\" >>), "\"", << "\\", "\"" >>)
    \o << "\\", "n", "\"", "\n" >>

\* C4 as stated: compute_full_text_escaped gives one quoted fragment per source
\* line, ended by an escaped newline, in which every backslash and every double
\* quote of the line is escaped.
C4_AsClaimed ==
    escaped # << >> =>
        escaped = Flatten([i \in DOMAIN SplitLines(definition) |->
                              EscapedFragment(SplitLines(definition)[i])])

====
